---- MODULE Spec2Model ----
(***************************************************************************)
(* The economic-calendar service of src/main.py: one run of GET /calendar  *)
(* (get_calendar), which fetches the week's events from the source         *)
(* (fetch_economic_calendar), renders them (format_telegram_message) and   *)
(* posts the text to the Telegram service when one is configured.          *)
(*                                                                         *)
(* Python values are modelled as follows.                                  *)
(*   - a decoded JSON value is a record tagged by t: "str" (field s),      *)
(*     "num" (field n), "null", "dict" (a calendar record with its seven   *)
(*     keys, an absent key holding JMissing), "array" (the top-level list, *)
(*     field items) and "object" (the top-level {"data": [...]} envelope,  *)
(*     field data);                                                        *)
(*   - the str of EconomicEvent.time, the sort key, is the sequence of its *)
(*     character codes, so that Python's str comparison is computed;       *)
(*   - every other str is a TLA+ string, and None is PyNone;               *)
(*   - the message is the sequence of the pieces concatenated into it,     *)
(*     a line break being the piece NL.                                    *)
(***************************************************************************)
EXTENDS Integers, Sequences, FiniteSets, TLC

VARIABLES
    pc,                     \* where the run of get_calendar stands
    TELEGRAM_SERVICE_URL,   \* os.getenv("TELEGRAM_SERVICE_URL")
    tzOffset,               \* the process's local time zone, seconds east of UTC
    strCoercion,            \* whether the installed pydantic coerces numbers to str
    response,               \* what the source answered to the GET
    events,                 \* the list fetch_economic_calendar returned
    message,                \* the text format_telegram_message returned
    posts,                  \* the JSON bodies POSTed to the sink, in order
    sinkReply,              \* what the sink answered to the POST
    replies,                \* the outcomes handed to the caller of the endpoint
    log                     \* the stages of the run, in the order they happened

vars == <<pc, TELEGRAM_SERVICE_URL, tzOffset, strCoercion, response, events,
          message, posts, sinkReply, replies, log>>

----------------------------------------------------------------------------
\* Bounds of the model.

\* The longest batch of records the source returns.
MaxBatch == 3
\* The longest record list inside a {"data": [...]} envelope.
MaxEnvelope == 1

----------------------------------------------------------------------------
\* Python and JSON values.

PyNone == "<None>"

JMissing == [t |-> "missing"]
JNull == [t |-> "null"]
JStr(s) == [t |-> "str", s |-> s]
JNum(n) == [t |-> "num", n |-> n]
JDict(date, importance, country, title, actual, forecast, previous) ==
    [t |-> "dict", date |-> date, importance |-> importance, country |-> country,
     title |-> title, actual |-> actual, forecast |-> forecast, previous |-> previous]
JArray(items) == [t |-> "array", items |-> items]
JObject(data) == [t |-> "object", data |-> data]

\* isinstance(event_data, dict)
IsDict(v) == v.t = "dict"

\* event_data.get(key, default)
Get(d, key, default) == IF d[key] = JMissing THEN default ELSE d[key]

\* bool(v) of an Optional[str]
Truthy(v) == v # PyNone /\ v # ""

\* str(v) of a decoded JSON scalar
Str(v) ==
    CASE v.t = "str" -> v.s
      [] v.t = "num" -> ToString(v.n)
      [] OTHER -> "None"

----------------------------------------------------------------------------
\* The inputs: what the source and the sink may answer.

RawRecords ==
    { JDict(JNum(57600), JStr("high"), JStr("USD"), JStr("CPI"),
            JStr("1.2"), JStr("1.0"), JStr("0.9")),
      JDict(JNum(36000), JStr("medium"), JStr("EUR"), JStr("GDP"),
            JMissing, JStr("2.0"), JMissing),
      JDict(JNum(52200), JStr("critical"), JStr("GBP"), JStr("PMI"),
            JNull, JMissing, JStr("50")),
      JDict(JMissing, JNum(3), JMissing, JStr("Holiday"),
            JMissing, JNum(5), JMissing),
      JDict(JStr("tomorrow"), JStr("high"), JStr("USD"), JStr("NFP"),
            JMissing, JMissing, JMissing),
      JDict(JNum(36000), JStr("low"), JStr("USD"), JNull,
            JMissing, JMissing, JMissing),
      JDict(JNum(36000), JMissing, JStr("JPY"), JMissing,
            JMissing, JMissing, JMissing),
      JStr("oops") }

BatchesUpTo(n) == UNION { [1..k -> RawRecords] : k \in 0..n }

Bodies ==
    { [decodable |-> FALSE, json |-> JNull] }
    \cup { [decodable |-> TRUE, json |-> JArray(b)] : b \in BatchesUpTo(MaxBatch) }
    \cup { [decodable |-> TRUE, json |-> JObject(b)] : b \in BatchesUpTo(MaxEnvelope) }
    \cup { [decodable |-> TRUE, json |-> JStr("maintenance")] }

NoBody == [decodable |-> FALSE, json |-> JNull]
NoResponse == [kind |-> "none", status |-> 0, body |-> NoBody]
TransportFault == [kind |-> "fault", status |-> 0, body |-> NoBody]
HttpResponse(status, body) == [kind |-> "http", status |-> status, body |-> body]

SourceResponses ==
    { TransportFault }
    \cup { HttpResponse(s, NoBody) : s \in {404, 500} }
    \cup { HttpResponse(200, b) : b \in Bodies }

SinkResponses ==
    { TransportFault } \cup { HttpResponse(s, NoBody) : s \in {200, 500} }

----------------------------------------------------------------------------
\* fetch_economic_calendar: one record to at most one EconomicEvent.

\* The impact level with any string 'importance' passed through unchecked.
ImpactLevelAny(event_data) ==
    IF IsDict(event_data) /\ Get(event_data, "importance", JStr("low")).t = "str"
    THEN Get(event_data, "importance", JStr("low")).s
    ELSE "low"

\* "Convert impact level": the record's 'importance' when that is one of the
\* three levels, 'low' otherwise.
ImpactLevel(event_data) ==
    IF IsDict(event_data)
    THEN LET importance == Get(event_data, "importance", JStr("low"))
         IN  IF importance \in {JStr("high"), JStr("medium"), JStr("low")}
             THEN importance.s
             ELSE "low"
    ELSE "low"

\* Two decimal digits, as character codes ('0' is 48).
TwoDigits(n) == <<48 + (n \div 10), 48 + (n % 10)>>

\* datetime.fromtimestamp(v).strftime("%H:%M"): the local clock time of an epoch
\* number; a value that is no number raises TypeError.
TimeStr(v) ==
    IF v.t = "num"
    THEN LET secs == (v.n + tzOffset) % 86400
         IN  [ok |-> TRUE,
              time |-> TwoDigits(secs \div 3600) \o <<58>> \o TwoDigits((secs % 3600) \div 60)]
    ELSE [ok |-> FALSE, time |-> <<>>]

\* pydantic's validation of a field declared str.
StrField(v) ==
    CASE v.t = "str" -> [ok |-> TRUE, s |-> v.s]
      [] v.t = "num" /\ strCoercion -> [ok |-> TRUE, s |-> Str(v)]
      [] OTHER -> [ok |-> FALSE, s |-> ""]

\* pydantic's validation of a field declared Optional[str].
OptStrField(v) == IF v.t = "null" THEN [ok |-> TRUE, s |-> PyNone] ELSE StrField(v)

\* The body of the per-record try block: the event built from one record, or
\* ok = FALSE when any statement of the block raises.
NormalizeRecord(event_data) ==
    LET dict == IsDict(event_data)
        t == TimeStr(IF dict THEN Get(event_data, "date", JNum(0)) ELSE JNum(0))
        currency == StrField(IF dict THEN Get(event_data, "country", JStr("")) ELSE JStr(""))
        title == StrField(IF dict THEN Get(event_data, "title", JStr(""))
                                  ELSE JStr(Str(event_data)))
        actual == OptStrField(IF dict THEN Get(event_data, "actual", JStr("")) ELSE JStr(""))
        forecast == OptStrField(IF dict THEN Get(event_data, "forecast", JStr("")) ELSE JStr(""))
        previous == OptStrField(IF dict THEN Get(event_data, "previous", JStr("")) ELSE JStr(""))
    IN  [ok |-> t.ok /\ currency.ok /\ title.ok /\ actual.ok /\ forecast.ok /\ previous.ok,
         event |-> [time |-> t.time, currency |-> currency.s,
                    impact |-> ImpactLevel(event_data), event |-> title.s,
                    actual |-> actual.s, forecast |-> forecast.s, previous |-> previous.s]]

\* The loop over the batch with the try block around the whole loop: the first
\* record that raises ends it.
RECURSIVE ProcessRecordsAbort(_)
ProcessRecordsAbort(batch) ==
    IF Len(batch) = 0 \/ ~NormalizeRecord(Head(batch)).ok
    THEN <<>>
    ELSE <<NormalizeRecord(Head(batch)).event>> \o ProcessRecordsAbort(Tail(batch))

\* The loop over the batch: a record that raises is logged and skipped.
RECURSIVE ProcessRecords(_)
ProcessRecords(batch) ==
    IF Len(batch) = 0
    THEN <<>>
    ELSE LET r == NormalizeRecord(Head(batch))
         IN  (IF r.ok THEN <<r.event>> ELSE <<>>) \o ProcessRecords(Tail(batch))

----------------------------------------------------------------------------
\* events.sort(key=lambda x: x.time)

\* Python's a < b on two str, given as character codes.
RECURSIVE StrLess(_, _)
StrLess(a, b) ==
    IF Len(b) = 0 THEN FALSE
    ELSE IF Len(a) = 0 THEN TRUE
    ELSE IF a[1] # b[1] THEN a[1] < b[1]
    ELSE StrLess(Tail(a), Tail(b))

\* e put into a sorted list behind every element whose key is not greater.
RECURSIVE Insert(_, _)
Insert(sorted, e) ==
    IF Len(sorted) = 0 THEN <<e>>
    ELSE IF StrLess(e.time, Head(sorted).time) THEN <<e>> \o sorted
    ELSE <<Head(sorted)>> \o Insert(Tail(sorted), e)

\* The list left as it is.
SortByTimeNot(evs) == evs

\* list.sort by the time key: ascending and stable.
RECURSIVE SortByTime(_)
SortByTime(evs) ==
    IF Len(evs) = 0 THEN <<>>
    ELSE Insert(SortByTime(SubSeq(evs, 1, Len(evs) - 1)), evs[Len(evs)])

----------------------------------------------------------------------------
\* fetch_economic_calendar: the response to the returned list or an exception.

\* response.raise_for_status()
RaisesForStatus(status) == status < 200 \/ status > 299

\* Every failure swallowed: an empty list is returned instead of raising.
fetch_economic_calendar_swallow(resp) ==
    [raised |-> FALSE,
     events |-> IF resp.kind = "http" /\ ~RaisesForStatus(resp.status)
                   /\ resp.body.decodable /\ resp.body.json.t = "array"
                THEN SortByTime(ProcessRecords(resp.body.json.items))
                ELSE <<>>]

\* What fetch_economic_calendar does once the GET has been answered by resp:
\* it raises HTTPException(500) on a transport fault, an error status or an
\* undecodable body, and otherwise returns the sorted events of a top-level
\* list (no event for any other JSON value).
fetch_economic_calendar(resp) ==
    IF resp.kind = "fault" \/ RaisesForStatus(resp.status) \/ ~resp.body.decodable
    THEN [raised |-> TRUE, events |-> <<>>]
    ELSE [raised |-> FALSE,
          events |-> IF resp.body.json.t = "array"
                     THEN SortByTime(ProcessRecords(resp.body.json.items))
                     ELSE <<>>]

----------------------------------------------------------------------------
\* format_telegram_message

NL == "\n"

\* The text of a str given as character codes (digits and ':').
RECURSIVE Text(_)
Text(codes) ==
    IF Len(codes) = 0 THEN ""
    ELSE (IF Head(codes) = 58 THEN ":" ELSE ToString(Head(codes) - 48)) \o Text(Tail(codes))

NoEventsMessage == <<"No economic events scheduled for today.">>

Header == <<"U+1F4C5 Economic Calendar", NL, NL>>

\* The impact-to-emoji table with its default.
ImpactEmoji(impact) ==
    CASE impact = "high" -> "U+1F534"
      [] impact = "medium" -> "U+1F7E1"
      [] OTHER -> "U+26AA"

\* sep.join(parts), each part a sequence of pieces.
RECURSIVE Join(_, _)
Join(parts, sep) ==
    IF Len(parts) = 0 THEN <<>>
    ELSE IF Len(parts) = 1 THEN parts[1]
    ELSE parts[1] \o <<sep>> \o Join(Tail(parts), sep)

\* The details list with forecast appended before actual.
DetailsForecastFirst(event) ==
    (IF Truthy(event.forecast) THEN << <<"F: ", event.forecast>> >> ELSE <<>>)
    \o (IF Truthy(event.actual) THEN << <<"A: ", event.actual>> >> ELSE <<>>)
    \o (IF Truthy(event.previous) THEN << <<"P: ", event.previous>> >> ELSE <<>>)

\* The details list of an event: the truthy ones of actual, forecast, previous.
Details(event) ==
    (IF Truthy(event.actual) THEN << <<"A: ", event.actual>> >> ELSE <<>>)
    \o (IF Truthy(event.forecast) THEN << <<"F: ", event.forecast>> >> ELSE <<>>)
    \o (IF Truthy(event.previous) THEN << <<"P: ", event.previous>> >> ELSE <<>>)

\* What one pass of the loop appends to the message.
EventBlock(event) ==
    <<Text(event.time), " | ", event.currency, " | ", ImpactEmoji(event.impact),
      " | ", event.event, NL>>
    \o (IF Truthy(event.actual) \/ Truthy(event.forecast) \/ Truthy(event.previous)
        THEN <<"(">> \o Join(Details(event), " | ") \o <<")", NL>>
        ELSE <<>>)
    \o <<NL>>

RECURSIVE FormatEvents(_)
FormatEvents(evs) ==
    IF Len(evs) = 0 THEN <<>> ELSE EventBlock(Head(evs)) \o FormatEvents(Tail(evs))

\* The formatter without its "if not events" guard.
format_telegram_message_unguarded(evs) == Header \o FormatEvents(evs)

format_telegram_message(evs) ==
    IF Len(evs) = 0 THEN NoEventsMessage ELSE Header \o FormatEvents(evs)

----------------------------------------------------------------------------
\* get_calendar

\* The forwarding guard written as "is not None".
ConfiguredNotNone(url) == url # PyNone

\* if TELEGRAM_SERVICE_URL:
Configured(url) == Truthy(url)

\* return {"status": "success", "data": message}
Success(msg) == [code |-> 200, status |-> "success", data |-> msg]

\* raise HTTPException(status_code=500, ...)
Error500 == [code |-> 500, status |-> "error", data |-> <<>>]

Init ==
    /\ pc = "idle"
    /\ TELEGRAM_SERVICE_URL \in {PyNone, "", "http://telegram"}
    /\ tzOffset \in {0, -18000}
    /\ strCoercion \in BOOLEAN
    /\ response = NoResponse
    /\ events = <<>>
    /\ message = <<>>
    /\ posts = <<>>
    /\ sinkReply = NoResponse
    /\ replies = <<>>
    /\ log = <<>>

\* The endpoint is called: fetch_economic_calendar sends its GET and awaits.
GetCalendar ==
    /\ pc = "idle"
    /\ pc' = "fetching"
    /\ log' = Append(log, "GET")
    /\ UNCHANGED <<TELEGRAM_SERVICE_URL, tzOffset, strCoercion, response, events,
                   message, posts, sinkReply, replies>>

\* The GET is answered: fetch_economic_calendar returns the events, or raises
\* and get_calendar's handler turns that into HTTP 500.
Fetch ==
    /\ pc = "fetching"
    /\ \E resp \in SourceResponses :
          LET r == fetch_economic_calendar(resp)
          IN  /\ response' = resp
              /\ IF r.raised
                 THEN /\ pc' = "done"
                      /\ replies' = Append(replies, Error500)
                      /\ log' = Append(log, "fetch_failed")
                      /\ UNCHANGED events
                 ELSE /\ pc' = "formatting"
                      /\ events' = r.events
                      /\ log' = Append(log, "fetched")
                      /\ UNCHANGED replies
    /\ UNCHANGED <<TELEGRAM_SERVICE_URL, tzOffset, strCoercion, message, posts, sinkReply>>

\* message = format_telegram_message(events)
Format ==
    /\ pc = "formatting"
    /\ message' = format_telegram_message(events)
    /\ pc' = "forwarding"
    /\ log' = Append(log, "formatted")
    /\ UNCHANGED <<TELEGRAM_SERVICE_URL, tzOffset, strCoercion, response, events,
                   posts, sinkReply, replies>>

\* The POST to the sink is sent when a destination is configured; otherwise
\* the run returns success at once.
Forward ==
    /\ pc = "forwarding"
    /\ IF Configured(TELEGRAM_SERVICE_URL)
       THEN /\ posts' = Append(posts, [url |-> TELEGRAM_SERVICE_URL \o "/send_calendar",
                                       json |-> message])
            /\ pc' = "posting"
            /\ log' = Append(log, "POST")
            /\ UNCHANGED replies
       ELSE /\ pc' = "done"
            /\ replies' = Append(replies, Success(message))
            /\ UNCHANGED <<posts, log>>
    /\ UNCHANGED <<TELEGRAM_SERVICE_URL, tzOffset, strCoercion, response, events,
                   message, sinkReply>>

\* The POST is answered: the response is not looked at, and only a transport
\* fault raises.
PostReturns ==
    /\ pc = "posting"
    /\ \E r \in SinkResponses :
          /\ sinkReply' = r
          /\ replies' = Append(replies, IF r.kind = "fault" THEN Error500
                                                            ELSE Success(message))
    /\ pc' = "done"
    /\ UNCHANGED <<TELEGRAM_SERVICE_URL, tzOffset, strCoercion, response, events,
                   message, posts, log>>

Next == GetCalendar \/ Fetch \/ Format \/ Forward \/ PostReturns

Spec == Init /\ [][Next]_vars

----------------------------------------------------------------------------
\* Vocabulary of the properties.

\* fetch_economic_calendar has returned a list in this run.
FetchSucceeded == Len(log) >= 2 /\ log[2] = "fetched"

\* The run is over.
Done == pc = "done"

\* The source answered 200 with a body that decodes to a top-level list.
BareList ==
    /\ response.kind = "http"
    /\ response.status = 200
    /\ response.body.decodable
    /\ response.body.json.t = "array"

\* The source answered 200 with a body that decodes to {"data": [...]}.
Envelope ==
    /\ response.kind = "http"
    /\ response.status = 200
    /\ response.body.decodable
    /\ response.body.json.t = "object"

\* The fetch fails: transport fault, non-2xx status or undecodable body.
FetchFails ==
    \/ response.kind = "fault"
    \/ /\ response.kind = "http"
       /\ (response.status \notin 200..299 \/ ~response.body.decodable)

\* A record whose normalization raises nothing.
WellFormed(r) == NormalizeRecord(r).ok

\* The events of the well-formed records of a batch, in batch order.
EventsOfValid(batch) ==
    LET good == SelectSeq(batch, WellFormed)
    IN  [i \in 1..Len(good) |-> NormalizeRecord(good[i]).event]

Range(s) == { s[i] : i \in DOMAIN s }

Count(s, x) == Cardinality({ i \in DOMAIN s : s[i] = x })

\* s is a permutation of t.
SameBag(s, t) ==
    /\ Len(s) = Len(t)
    /\ \A x \in Range(s) \cup Range(t) : Count(s, x) = Count(t, x)

IsPrefix(s, t) == Len(s) <= Len(t) /\ SubSeq(t, 1, Len(s)) = s

----------------------------------------------------------------------------
\* C1: when a destination is configured, fetch and format succeed and the
\* sink answers the POST with a non-2xx status, the run reports failure
\* (HTTP 500) to the caller, never {"status": "success"}.
C1_SinkErrorReportsFailure ==
    ( /\ Done
      /\ Truthy(TELEGRAM_SERVICE_URL)
      /\ FetchSucceeded
      /\ sinkReply.kind = "http"
      /\ sinkReply.status \notin 200..299 )
    => ( /\ Len(replies) = 1
         /\ replies[1].code = 500
         /\ replies[1].status # "success" )

\* C2: with no destination configured (TELEGRAM_SERVICE_URL absent or empty)
\* no POST to the sink is issued at any point of the run, and once the fetch
\* has succeeded the run ends with status "success" carrying the formatted
\* output as data.
C2_NoDestinationNoPost ==
    TELEGRAM_SERVICE_URL \in {PyNone, ""}
    => ( /\ Len(posts) = 0
         /\ \A i \in DOMAIN log : log[i] # "POST"
         /\ pc # "posting"
         /\ (Done /\ FetchSucceeded)
            => ( /\ Len(replies) = 1
                 /\ replies[1].code = 200
                 /\ replies[1].status = "success"
                 /\ replies[1].data = message
                 /\ message = format_telegram_message(events) ) )

C2_Witness ==
    /\ Done
    /\ TELEGRAM_SERVICE_URL = ""
    /\ FetchSucceeded
    /\ Len(events) = 2
    /\ Len(replies) = 1
    /\ replies[1].status = "success"

\* C3: for every top-level list the source returns, the fetch does not raise
\* whatever malformed records the list holds, and the returned list is the
\* sorted list of the events of the well-formed records alone: the events of
\* the valid records do not depend on the malformed records between them.
C3_SkipAndContinue ==
    (pc \notin {"idle", "fetching"} /\ BareList)
    => ( /\ FetchSucceeded
         /\ Len(events) = Len(SelectSeq(response.body.json.items, WellFormed))
         /\ events = SortByTime(EventsOfValid(response.body.json.items)) )

\* A non-numeric date and a null title between two valid records.
C3_Witness ==
    /\ BareList
    /\ FetchSucceeded
    /\ Len(response.body.json.items) = 3
    /\ WellFormed(response.body.json.items[1])
    /\ IsDict(response.body.json.items[2])
    /\ response.body.json.items[2].date.t = "str"
    /\ WellFormed(response.body.json.items[3])
    /\ Len(events) = 2

\* C4: every event of the returned list has a non-empty title; a non-dict
\* record and a dict record without 'title' contribute no event.
C4_TitlesNonEmpty ==
    (FetchSucceeded /\ BareList)
    => ( /\ \A i \in DOMAIN events : events[i].event # ""
         /\ Len(events) <= Cardinality({ i \in DOMAIN response.body.json.items :
                                 /\ IsDict(response.body.json.items[i])
                                 /\ response.body.json.items[i].title # JMissing }) )

\* The impact the rule of C5 gives a record.
ExpectedImpact(r) ==
    IF IsDict(r) /\ r.importance \in {JStr("low"), JStr("medium"), JStr("high")}
    THEN r.importance.s
    ELSE "low"

\* C5: every event of the returned list has impact 'low', 'medium' or
\* 'high': the record's 'importance' when that is one of the three strings,
\* and 'low' when it is missing, of another type or any other value.
C5_ImpactEnum ==
    (FetchSucceeded /\ BareList)
    => ( /\ \A i \in DOMAIN events : events[i].impact \in {"low", "medium", "high"}
         /\ { <<events[i].event, events[i].currency, events[i].impact>> : i \in DOMAIN events }
            = { <<NormalizeRecord(r).event.event, NormalizeRecord(r).event.currency,
                  ExpectedImpact(r)>> :
                r \in { x \in Range(response.body.json.items) : WellFormed(x) } } )

\* An unknown string, a number and a recognized level in one batch.
C5_Witness ==
    /\ FetchSucceeded
    /\ BareList
    /\ \E i, j, k \in DOMAIN response.body.json.items :
          /\ IsDict(response.body.json.items[i])
          /\ response.body.json.items[i].importance = JStr("critical")
          /\ IsDict(response.body.json.items[j])
          /\ response.body.json.items[j].importance.t = "num"
          /\ IsDict(response.body.json.items[k])
          /\ response.body.json.items[k].importance = JStr("high")
    /\ \E a, b \in DOMAIN events : events[a].impact = "low" /\ events[b].impact = "high"
    /\ Len(events) = 3

\* C6: the returned list is ordered by time ascending under str comparison
\* and is a permutation of the events normalized from the batch.
C6_SortedPermutation ==
    (FetchSucceeded /\ BareList)
    => ( /\ \A i \in 1..(Len(events) - 1) : ~StrLess(events[i + 1].time, events[i].time)
         /\ SameBag(events, EventsOfValid(response.body.json.items)) )

\* Times 16:00, 10:00, 14:30 come out as 10:00, 14:30, 16:00.
C6_Witness ==
    /\ FetchSucceeded
    /\ BareList
    /\ tzOffset = 0
    /\ Len(response.body.json.items) = 3
    /\ \A i \in 1..3 : IsDict(response.body.json.items[i])
    /\ [i \in 1..3 |-> response.body.json.items[i].date]
         = <<JNum(57600), JNum(36000), JNum(52200)>>
    /\ [i \in DOMAIN events |-> Text(events[i].time)] = <<"10:00", "14:30", "16:00">>

\* C7: a response body {"data": L} yields the same returned event list as
\* the bare list L.
C7_EnvelopeSameAsList ==
    (pc \notin {"idle", "fetching"} /\ Envelope)
    => ( /\ FetchSucceeded
         /\ events = SortByTime(EventsOfValid(response.body.json.data)) )

\* C8: the stages of a run happen in the order fetch, format, forward, each
\* at most once; the POST is issued at most once, only after a successful
\* fetch and the formatting, and carries the formatted message; a failed
\* fetch ends the run with no formatting, no POST and exactly one HTTP 500.
C8_StageOrder ==
    /\ \/ IsPrefix(log, <<"GET", "fetched", "formatted", "POST">>)
       \/ log = <<"GET", "fetch_failed">>
    /\ Len(posts) <= 1
    /\ Len(replies) <= 1
    /\ Len(posts) = 1
       => ( /\ log = <<"GET", "fetched", "formatted", "POST">>
            /\ ~FetchFails
            /\ posts[1].json = message )
    /\ FetchFails
       => ( /\ Done
            /\ log = <<"GET", "fetch_failed">>
            /\ Len(message) = 0
            /\ Len(posts) = 0
            /\ Len(replies) = 1
            /\ replies[1].code = 500 )

\* A failed fetch has ended a run.
C8_WitnessFailure == Done /\ FetchFails /\ response.kind = "http" /\ response.status = 200

\* A run has posted its message and ended.
C8_Witness == Done /\ Len(posts) = 1 /\ Len(events) = 2 /\ Len(replies) = 1

----------------------------------------------------------------------------
\* The lines of a text, each ended by NL (a last line may lack it).
RECURSIVE SplitLines(_, _)
SplitLines(text, cur) ==
    IF Len(text) = 0 THEN (IF Len(cur) = 0 THEN <<>> ELSE <<cur>>)
    ELSE IF Head(text) = NL THEN <<cur>> \o SplitLines(Tail(text), <<>>)
    ELSE SplitLines(Tail(text), Append(cur, Head(text)))

Lines(text) == SplitLines(text, <<>>)

IsDetailLine(line) == Len(line) > 0 /\ line[1] = "("

\* The lines of the message after the heading that are neither blank nor
\* detail lines.
EventLineAt(ls) == { i \in DOMAIN ls : i > 2 /\ Len(ls[i]) > 0 /\ ~IsDetailLine(ls[i]) }

\* The index of the k-th of them.
KthEventLine(ls, k) ==
    CHOOSE i \in EventLineAt(ls) : Cardinality({ j \in EventLineAt(ls) : j <= i }) = k

IsPresentPair(p) == p[2] # PyNone /\ p[2] # ""

IsDetailContent(piece) == piece \notin {"(", ")", " | "}

RECURSIVE Flatten(_)
Flatten(ss) == IF Len(ss) = 0 THEN <<>> ELSE Head(ss) \o Flatten(Tail(ss))

\* The labelled values of an event that are present, in the order actual,
\* forecast, previous.
PresentDetails(e) ==
    SelectSeq(<< <<"A: ", e.actual>>, <<"F: ", e.forecast>>, <<"P: ", e.previous>> >>,
              IsPresentPair)

\* C9: a non-empty event list is rendered in input order, each event as
\* exactly one line "time | currency | impact-glyph | title"; that line is
\* followed by a detail line if and only if one of actual, forecast,
\* previous is present, and the detail line lists exactly the present ones
\* in the order A:, F:, P:.
C9_DigestLayout ==
    (pc \in {"forwarding", "posting", "done"} /\ FetchSucceeded /\ Len(events) > 0)
    => LET ls == Lines(message)
       IN  /\ Cardinality(EventLineAt(ls)) = Len(events)
           /\ Len(ls) = 2 + 2 * Len(events)
                        + Cardinality({ k \in DOMAIN events : Len(PresentDetails(events[k])) > 0 })
           /\ \A k \in DOMAIN events :
                 LET i == KthEventLine(ls, k)
                     e == events[k]
                     n == Len(PresentDetails(e))
                 IN  /\ ls[i] = <<Text(e.time), " | ", e.currency, " | ",
                                  (CASE e.impact = "high" -> "U+1F534"
                                     [] e.impact = "medium" -> "U+1F7E1"
                                     [] OTHER -> "U+26AA"),
                                  " | ", e.event>>
                     /\ IsDetailLine(ls[i + 1]) <=> n > 0
                     /\ n > 0 => /\ Len(ls[i + 1]) = 3 * n + 1
                                 /\ SelectSeq(ls[i + 1], IsDetailContent)
                                      = Flatten(PresentDetails(e))
                                 /\ Len(ls[i + 2]) = 0
                     /\ n = 0 => Len(ls[i + 1]) = 0

\* A rendered list with an event without details, one with a single detail
\* and one with all three.
C9_Witness ==
    /\ Done
    /\ FetchSucceeded
    /\ Len(events) = 3
    /\ \E a, b, c \in DOMAIN events :
          /\ Len(PresentDetails(events[a])) = 0
          /\ Len(PresentDetails(events[b])) = 1
          /\ Len(PresentDetails(events[c])) = 3
    /\ Len(Lines(message)) = 10

\* C10: an empty event list is rendered as one fixed, non-empty "no events"
\* message, and a run whose fetch yields no events returns and forwards that
\* placeholder.
C10_NoEventsPlaceholder ==
    (pc \in {"forwarding", "posting", "done"} /\ FetchSucceeded /\ Len(events) = 0)
    => ( /\ message = <<"No economic events scheduled for today.">>
         /\ Len(message) > 0
         /\ message[1] # ""
         /\ \A i \in DOMAIN posts : posts[i].json = message
         /\ (Done /\ Len(replies) > 0 /\ replies[1].code = 200)
            => replies[1].data = message )

\* A run over a batch of malformed records alone has posted and returned the
\* placeholder.
C10_Witness ==
    /\ Done
    /\ BareList
    /\ Len(response.body.json.items) > 0
    /\ Len(events) = 0
    /\ Len(posts) = 1
    /\ Len(replies) = 1
    /\ replies[1].status = "success"

====
